---- MODULE Spec2Model ----
(***************************************************************************)
(* Argon: resolution of a release name into its inheritance chain, the     *)
(* content fetcher (release jar/definition, asset objects, libraries) and  *)
(* the classpath assembly of Argon.play.                                   *)
(*                                                                         *)
(* One action is one execution segment of the asyncio program between two  *)
(* suspension points (a network request or a file write that is awaited).  *)
(***************************************************************************)
EXTENDS Integers, Sequences, FiniteSets, TLC

(***************************************************************************)
(* Bounds of the model.                                                    *)
(***************************************************************************)
\* operations (get_version, play, fetch_*, download_libraries) per process
MaxOps == 2
\* depth at which the interpreter stops a chain of nested awaits
MaxDepth == 4
\* request counters saturate here
ReqCap == 2
\* entries of the asset index in the window specification
MaxObjects == 17
\* files with damaged content the remote side leaves in the store at a time
MaxDamaged == 1

\* util.chunks(task_list, 16)
ChunkSize == 16

(***************************************************************************)
(* The remote side and the release definitions.                            *)
(***************************************************************************)
NoName == "none"

\* every release that has a definition document somewhere
Names == {"base", "leaf", "mod", "pack", "cycA", "cycB"}

\* names a caller may ask for: releases, and a name that differs from a
\* manifest entry by case only and is nowhere to be found itself
Requested == {"base", "leaf", "mod", "pack", "cycA", "BASE"}

\* version_manifest.json: the ordered list of releases the remote side knows
Manifest == <<"base", "leaf", "cycA", "cycB">>

\* str.lower(), on the names of the model
Lower(n) == IF n = "BASE" THEN "base" ELSE n

\* a rule {"action": ..., "os": {...}}; os is the list of the (key, value)
\* pairs of the "os" object, in the order of the document
Rule(action, os) == [hasFeatures |-> FALSE, action |-> action, hasOs |-> TRUE, os |-> os]

\* a rule {"action": ...}
PlainRule(action) == [hasFeatures |-> FALSE, action |-> action, hasOs |-> FALSE, os |-> <<>>]

\* a rule {"action": ..., "features": {...}}, with or without an "os" object
FeatureRule(action, hasOs, os) ==
    [hasFeatures |-> TRUE, action |-> action, hasOs |-> hasOs, os |-> os]

Lib(name, hasRules, rules) ==
    [name |-> name, hasRules |-> hasRules, rules |-> rules,
     form |-> "downloads", hasNatives |-> FALSE, natives |-> <<>>]

\* a legacy library given by a repository url: no hash
UrlLib(name) ==
    [name |-> name, hasRules |-> FALSE, rules |-> <<>>,
     form |-> "url", hasNatives |-> FALSE, natives |-> <<>>]

\* a library given by its name only: neither "url" nor "downloads"
NameLib(name) ==
    [name |-> name, hasRules |-> FALSE, rules |-> <<>>,
     form |-> "name", hasNatives |-> FALSE, natives |-> <<>>]

OsxOnly == <<Rule("allow", <<(<<"name", "osx">>)>>)>>

\* the definition documents (the same document locally and remotely)
Def(n) ==
    CASE n = "base" -> [id |-> "base", inheritsFrom |-> NoName, hasLibraries |-> TRUE,
                        libraries |-> <<Lib("b1", FALSE, <<>>), Lib("b2", TRUE, OsxOnly)>>]
      [] n = "leaf" -> [id |-> "leaf", inheritsFrom |-> "base", hasLibraries |-> TRUE,
                        libraries |-> <<Lib("l1", FALSE, <<>>)>>]
      [] n = "mod"  -> [id |-> "mod", inheritsFrom |-> "leaf", hasLibraries |-> TRUE,
                        libraries |-> <<UrlLib("m1"), NameLib("m2")>>]
      [] n = "pack" -> [id |-> "pack", inheritsFrom |-> "mod", hasLibraries |-> FALSE,
                        libraries |-> <<>>]
      [] n = "cycA" -> [id |-> "cycA", inheritsFrom |-> "cycB", hasLibraries |-> TRUE,
                        libraries |-> <<Lib("c1", FALSE, <<>>)>>]
      [] n = "cycB" -> [id |-> "cycB", inheritsFrom |-> "cycA", hasLibraries |-> TRUE,
                        libraries |-> <<Lib("c2", FALSE, <<>>)>>]

\* only a base release carries an "assetIndex" and a "javaVersion" of its own
HasOwnIndex(n) == Def(n).inheritsFrom = NoName

LibNames == {"b1", "b2", "l1", "m1", "m2", "c1", "c2"}

\* the chain the inheritsFrom relation of the documents defines, leaf first
\* (only used on names whose relation is acyclic)
RECURSIVE TrueChain(_)
TrueChain(n) ==
    IF Def(n).inheritsFrom = NoName THEN <<n>>
    ELSE <<n>> \o TrueChain(Def(n).inheritsFrom)

Acyclic == {"base", "leaf", "mod", "pack"}

Range(s) == {s[i] : i \in 1..Len(s)}

Min(a, b) == IF a < b THEN a ELSE b

(***************************************************************************)
(* util.py: the rule evaluator and the classpath of one definition.        *)
(***************************************************************************)
\* the loop over rule["os"].items(): the first matching key decides
RECURSIVE OsMatches(_, _, _, _)
OsMatches(os, i, target, arch) ==
    IF i > Len(os) THEN FALSE
    ELSE LET k == os[i][1]
             v == os[i][2]
         IN  IF k = "name" /\ v = target THEN TRUE
             ELSE IF k = "arch" /\ ((v = "x86" /\ arch = "32") \/ (v = "x64" /\ arch = "64"))
                  THEN TRUE
                  ELSE OsMatches(os, i + 1, target, arch)

\* a rule evaluator with a fixed default: a rule whose "os" does not match
\* is a deny
should_use_rule_default_deny(rule, target, arch) ==
    IF rule.hasFeatures THEN FALSE
    ELSE LET allow == (rule.action = "allow")
         IN  IF ~rule.hasOs THEN allow
             ELSE IF OsMatches(rule.os, 1, target, arch) THEN allow
                  ELSE FALSE

\* a rule evaluator that does not look at "features"
should_use_rule_without_features(rule, target, arch) ==
    LET allow == (rule.action = "allow")
    IN  IF ~rule.hasOs THEN allow
        ELSE IF OsMatches(rule.os, 1, target, arch) THEN allow
             ELSE ~allow

should_use_rule(rule, target, arch) ==
    IF rule.hasFeatures THEN FALSE
    ELSE LET allow == (rule.action = "allow")
         IN  IF ~rule.hasOs THEN allow
             ELSE IF OsMatches(rule.os, 1, target, arch) THEN allow
                  ELSE ~allow

\* all() in place of any()
should_use_library_all(library, target, arch) ==
    IF ~library.hasRules THEN TRUE
    ELSE \A i \in 1..Len(library.rules) : should_use_rule(library.rules[i], target, arch)

should_use_library(library, target, arch) ==
    IF ~library.hasRules THEN TRUE
    ELSE \E i \in 1..Len(library.rules) : should_use_rule(library.rules[i], target, arch)

\* what a call of a function of util.py gives back: a value, None, or the
\* exception it raises
Return(v) == [raised |-> "none", isNone |-> FALSE, value |-> v]
ReturnNone == [raised |-> "none", isNone |-> TRUE, value |-> <<>>]
Raise(e) == [raised |-> e, isNone |-> FALSE, value |-> <<>>]

\* str.replace("${arch}", arch), on a string given as its pieces
replace(pieces, arch) ==
    [i \in 1..Len(pieces) |-> IF pieces[i] = "${arch}" THEN arch ELSE pieces[i]]

\* library["natives"][shared.SYSTEM_TARGET] raises KeyError when the map has
\* no such key (SYSTEM_TARGET is None on an unrecognised system)
get_natives_string(library, target, arch) ==
    IF arch \notin {"64", "32"} THEN Raise("UnsupportedSystem")
    ELSE IF ~library.hasNatives THEN ReturnNone
    ELSE IF target \notin DOMAIN library.natives THEN Raise("KeyError")
    ELSE Return(replace(library.natives[target], arch))

\* <name>-<version>.jar, or <name>-<version>-<native>.jar
LibPath(name, classifier) == [kind |-> "lib", coord |-> name, classifier |-> classifier]
JarPath(name) == [kind |-> "jar", coord |-> name, classifier |-> <<>>]

\* the loop of get_class_path: the libraries of `libs` that pass the rules,
\* in order, as jar paths
RECURSIVE LibEntries(_, _, _)
LibEntries(libs, target, arch) ==
    IF libs = <<>> THEN <<>>
    ELSE (IF should_use_library(Head(libs), target, arch)
          THEN <<LibPath(Head(libs).name,
                         get_natives_string(Head(libs), target, arch).value)>>
          ELSE <<>>)
         \o LibEntries(Tail(libs), target, arch)

\* the exception that ends the loop of get_class_path: the one
\* get_natives_string raises on the first library that passes the rules and
\* makes it raise ("none" when the loop runs to its end)
RECURSIVE ClassPathRaised(_, _, _)
ClassPathRaised(libs, target, arch) ==
    IF libs = <<>> THEN "none"
    ELSE IF /\ should_use_library(Head(libs), target, arch)
            /\ get_natives_string(Head(libs), target, arch).raised # "none"
         THEN get_natives_string(Head(libs), target, arch).raised
         ELSE ClassPathRaised(Tail(libs), target, arch)

\* get_class_path(library, minecraft), on the library list the data holds now
get_class_path(libs, id, target, arch) ==
    LibEntries(libs, target, arch) \o <<JarPath(id)>>

(***************************************************************************)
(* util.create_arguments. A string is the list of its pieces: plain text,  *)
(* a placeholder ${name}, or a replacement field {name} of str.format.     *)
(***************************************************************************)
Text(t) == [kind |-> "text", s |-> t]
Dollar(name) == [kind |-> "dollar", s |-> name]
Field(name) == [kind |-> "field", s |-> name]

\* a templater that leaves ${name} as it is
no_re_sub(pieces) == pieces

\* re.sub(r"\$({[a-zA-Z_]+})", "\g<1>", value): ${name} becomes {name}
re_sub(pieces) ==
    [i \in 1..Len(pieces) |->
        IF pieces[i].kind = "dollar" THEN Field(pieces[i].s) ELSE pieces[i]]

\* value.format(**options): every field is replaced by the option of its
\* name; a name that is no key of options raises KeyError
format(pieces, options) ==
    IF \E i \in 1..Len(pieces) :
          pieces[i].kind = "field" /\ pieces[i].s \notin DOMAIN options
    THEN Raise("KeyError")
    ELSE Return([i \in 1..Len(pieces) |->
                    IF pieces[i].kind = "field" THEN Text(options[pieces[i].s])
                    ELSE pieces[i]])

\* the entries of a template: a str, a list, a dict {"rules": ..., "value": ...}
Str(pieces) ==
    [type |-> "str", pieces |-> pieces, items |-> <<>>,
     hasRules |-> FALSE, rules |-> <<>>, value |-> <<>>]
List(items) ==
    [type |-> "list", pieces |-> <<>>, items |-> items,
     hasRules |-> FALSE, rules |-> <<>>, value |-> <<>>]
Dict(hasRules, rules, value) ==
    [type |-> "dict", pieces |-> <<>>, items |-> <<>>,
     hasRules |-> hasRules, rules |-> rules, value |-> value]

\* an expansion that puts what a conditional node gives in front of what
\* came before it
extend_in_front(arguments, more) == more \o arguments

\* arguments += create_arguments(item["value"], **options)
extend(arguments, more) == arguments \o more

\* create_arguments(data, **options); the loop over a list is `loop`, run
\* from the list's first item with the arguments collected so far
RECURSIVE create_arguments(_, _, _, _)
RECURSIVE loop(_, _, _, _, _)
create_arguments(data, options, target, arch) ==
    IF data.type = "str"
    THEN LET value == format(re_sub(data.pieces), options)
         IN  IF value.raised # "none" THEN value ELSE Return(<<value.value>>)
    ELSE loop(data.items, <<>>, options, target, arch)

loop(items, arguments, options, target, arch) ==
    IF items = <<>> THEN Return(arguments)
    ELSE LET item == Head(items)
         IN  IF item.type = "str"
             THEN LET value == format(re_sub(item.pieces), options)
                  IN  IF value.raised # "none" THEN value
                      ELSE loop(Tail(items), Append(arguments, value.value),
                                options, target, arch)
             ELSE IF item.type = "dict"
                  THEN IF ~should_use_library(item, target, arch)
                       THEN loop(Tail(items), arguments, options, target, arch)
                       ELSE LET more == create_arguments(item.value, options,
                                                         target, arch)
                            IN  IF more.raised # "none" THEN more
                                ELSE loop(Tail(items), extend(arguments, more.value),
                                          options, target, arch)
                  ELSE loop(Tail(items), arguments, options, target, arch)

(***************************************************************************)
(* The state.                                                              *)
(***************************************************************************)
VARIABLES
    target, arch,       \* shared.SYSTEM_TARGET and platform.architecture()
    objects,            \* the hashes the asset index lists, in order
    pc, wpc,            \* where the process is; what the walk awaits
    op,                 \* the operation in progress: [kind, name]
    opsLeft,
    result,             \* how the last operation ended
    ver,                \* the Version object the caller holds
    stack,              \* the releases the current walk has entered
    json, jar, dirs,    \* versions/<name>/: definition files, jars, directories
    indexFile, objFiles, libFiles,
    manifestReq, docReq,\* requests of the manifest / of each definition document
    opReqs,             \* network requests of the operation in progress
    fullAtStart,        \* every target file was present when the operation began
    tasks, window,      \* the asset downloads of the call and the window awaited
    orphans,            \* transfers of a failed call that are still in flight
    libQueue, libIdx,   \* download_libraries: the list and the position in it
    class_path, copies, \* play: the classpath and the jar copies of this call
    arg, ret            \* the last call of a function of util.py and its outcome

disk == <<json, jar, dirs, indexFile, objFiles, libFiles>>
\* what no operation of Argon or Version changes
env == <<target, arch, objects, arg, ret>>
counters == <<manifestReq, docReq>>
walkv == <<stack, wpc>>
taskv == <<tasks, window>>
libvars == <<libQueue, libIdx>>
launch == <<class_path, copies>>
meter == <<opReqs, fullAtStart>>
\* what a call holds besides its position
locals == <<stack, wpc, tasks, window, libQueue, libIdx, class_path, copies>>
vars == <<target, arch, objects, pc, wpc, op, opsLeft, result, ver, stack,
          json, jar, dirs, indexFile, objFiles, libFiles, manifestReq, docReq,
          opReqs, fullAtStart, tasks, window, orphans, libQueue, libIdx,
          class_path, copies, arg, ret>>

Absent == "absent"
Empty == "empty"

NoVer == [name |-> NoName, libraries |-> <<>>, hasLibraries |-> FALSE]

Bump(c) == Min(c + 1, ReqCap)

\* the library files a release and its ancestors name
RECURSIVE ChainLibNames(_)
ChainLibNames(chain) ==
    IF chain = <<>> THEN {}
    ELSE {Def(Head(chain)).libraries[i].name : i \in 1..Len(Def(Head(chain)).libraries)}
         \cup ChainLibNames(Tail(chain))

\* every target file of get_version(n) is present with a matching hash
AllPresent(n) ==
    /\ n \in Acyclic
    /\ \A m \in Range(TrueChain(n)) : m \in json /\ jar[m] # Absent
    /\ indexFile
    /\ \A i \in 1..Len(objects) : objFiles[objects[i]] = "good"
    /\ \A l \in ChainLibNames(TrueChain(n)) : libFiles[l] = "good"

\* the disks a process may start on. An overlay release (leaf, mod, pack) is
\* installed by hand with a definition and a zero-length jar; StaleDisk is the
\* disk an interrupted _download_version of base leaves (jar opened, not
\* written; no definition)
FreshDisk ==
    [json |-> {}, jar |-> [n \in Names |-> Absent], files |-> "none", index |-> FALSE]
FullDisk ==
    [json |-> Names,
     jar |-> [n \in Names |-> IF n \in {"leaf", "mod", "pack"} THEN Empty ELSE n],
     files |-> "good", index |-> TRUE]
OverlayDisk ==
    [json |-> {"leaf", "mod", "pack"},
     jar |-> [n \in Names |-> IF n \in {"leaf", "mod", "pack"} THEN Empty ELSE Absent],
     files |-> "none", index |-> FALSE]
StaleDisk ==
    [json |-> {"leaf", "mod", "pack"},
     jar |-> [n \in Names |-> IF n \in {"leaf", "mod", "pack", "base"} THEN Empty
                              ELSE Absent],
     files |-> "bad", index |-> TRUE]
Disks == {FreshDisk, FullDisk, OverlayDisk, StaleDisk}

\* no function of util.py has been called
NoCall == [fn |-> "none"]

InitCommon ==
    /\ arg = NoCall
    /\ ret = NoCall
    /\ wpc = "done"
    /\ op = [kind |-> "none", name |-> NoName]
    /\ result = "none"
    /\ stack = <<>>
    /\ manifestReq = 0
    /\ docReq = [n \in Names |-> 0]
    /\ opReqs = 0
    /\ fullAtStart = FALSE
    /\ window = 1
    /\ orphans = {}
    /\ libQueue = <<>>
    /\ libIdx = 1
    /\ class_path = <<>>
    /\ copies = 0

Init ==
    /\ InitCommon
    /\ arch = "64"
    /\ target \in {"linux", "osx"}
    /\ objects = <<1, 2>>
    /\ pc = "idle"
    /\ opsLeft = MaxOps
    /\ ver = NoVer
    /\ tasks = [i \in 1..Len(objects) |-> "new"]
    /\ \E d \in Disks :
          /\ json = d.json
          /\ jar = [n \in Names \cup Requested |-> IF n \in Names THEN d.jar[n] ELSE Absent]
          /\ dirs = {n \in Names : d.jar[n] # Absent} \cup d.json
          /\ indexFile = d.index
          /\ objFiles = [h \in Range(objects) |-> d.files]
          /\ libFiles = [l \in LibNames |-> d.files]

(***************************************************************************)
(* Helpers shared by the operations.                                       *)
(***************************************************************************)
\* the operation ends and control is back with the caller: the locals of
\* the call are gone
Finish(res) ==
    /\ pc' = "idle"
    /\ result' = res
    /\ stack' = <<>>
    /\ wpc' = "done"
    /\ libQueue' = <<>>
    /\ libIdx' = 1
    /\ tasks' = [i \in 1..Len(objects) |-> "new"]
    /\ window' = 1
    /\ class_path' = <<>>
    /\ copies' = 0
    /\ opReqs' = 0
    /\ fullAtStart' = FALSE

\* the operation goes on at position p
Goto(p) ==
    /\ pc' = p
    /\ result' = result

\* a new operation begins
Begin(kind, n) ==
    /\ pc = "idle"
    /\ opsLeft > 0
    /\ opsLeft' = opsLeft - 1
    /\ op' = [kind |-> kind, name |-> n]

\* one more network request of the operation
Request == opReqs' = Bump(opReqs)

\* Version.fetch_inherited, after fetch_data: a release without inheritsFrom
\* returns at once, any other asks util.list_all_versions() for the manifest
AfterData(n) == IF Def(n).inheritsFrom = NoName THEN "return" ELSE "manifest"

\* a walk along inheritsFrom starts on the Version object v of the caller
\* (which has its data); p is the position of the caller
BeginWalk(p, v) ==
    /\ pc' = p
    /\ stack' = <<v.name>>
    /\ wpc' = AfterData(v.name)

\* a comparison that ignores case
SameNameNoCase(a, b) == Lower(a) = Lower(b)

\* the comparison of Argon._download_version and Version.fetch_inherited
SameName(a, b) == a = b

\* the manifest entries whose name is n
Found(n) == {i \in 1..Len(Manifest) : SameName(Manifest[i], n)}

\* Version.from_path: the definition file of n is there
HasLocal(n) == n \in json

\* the Version object from_path builds from the definition file
Loaded(n) == [name |-> Def(n).id, libraries |-> Def(n).libraries,
              hasLibraries |-> Def(n).hasLibraries]

(***************************************************************************)
(* Version.from_path, called by the user of the library.                   *)
(***************************************************************************)
FromPath(n) ==
    /\ Begin("from_path", n)
    /\ IF HasLocal(n)
       THEN ver' = Loaded(n) /\ Finish("ok")
       ELSE ver' = ver /\ Finish("InvalidPath")
    /\ UNCHANGED <<env, disk, counters, orphans>>

(***************************************************************************)
(* Argon.get_version and Argon._download_version.                          *)
(***************************************************************************)
\* from_path succeeds and download_assets begins, or it raises InvalidPath and
\* _download_version makes the directory and asks for the manifest
GetVersion(n) ==
    /\ Begin("get_version", n)
    /\ fullAtStart' = AllPresent(n)
    /\ IF HasLocal(n)
       THEN /\ ver' = Loaded(n)
            /\ BeginWalk("da_walk", Loaded(n))
            /\ dirs' = dirs
       ELSE /\ dirs' = dirs \cup {n}
            /\ pc' = "dv_list"
            /\ UNCHANGED <<ver, walkv>>
    /\ result' = "running"
    /\ UNCHANGED <<env, json, jar, indexFile, objFiles, libFiles, counters, orphans,
                   opReqs, taskv, libvars, launch>>

\* the manifest arrives: the loop over its entries, then fetch_data
DvManifest ==
    /\ pc = "dv_list"
    /\ manifestReq' = Bump(manifestReq)
    /\ IF Found(op.name) = {}
       THEN Finish("InvalidPath")
       ELSE Goto("dv_data") /\ Request /\ UNCHANGED <<fullAtStart, locals>>
    /\ UNCHANGED <<env, op, opsLeft, ver, disk, docReq, orphans>>

\* the definition document arrives; the jar is requested
DvData ==
    /\ pc = "dv_data"
    /\ docReq' = [docReq EXCEPT ![op.name] = Bump(@)]
    /\ Request
    /\ Goto("dv_jar_get")
    /\ UNCHANGED <<env, op, opsLeft, ver, disk, manifestReq, orphans, fullAtStart,
                   locals>>

\* a download that writes the definition before the jar
DvDefinitionFirst ==
    /\ pc = "dv_jar_get"
    /\ Request
    /\ json' = json \cup {op.name}
    /\ jar' = [jar EXCEPT ![op.name] = Empty]
    /\ Goto("dv_jar_read")
    /\ UNCHANGED <<env, op, opsLeft, ver, dirs, indexFile, objFiles, libFiles,
                   counters, orphans, fullAtStart, locals>>

\* the response to the jar request begins: aiofiles.open(jar_file, "wb")
DvJarOpen ==
    /\ pc = "dv_jar_get"
    /\ Request
    /\ jar' = [jar EXCEPT ![op.name] = Empty]
    /\ Goto("dv_jar_read")
    /\ UNCHANGED <<env, op, opsLeft, ver, json, dirs, indexFile, objFiles, libFiles,
                   counters, orphans, fullAtStart, locals>>

\* the body has been read and is written to the jar
DvJarWrite ==
    /\ pc = "dv_jar_read"
    /\ jar' = [jar EXCEPT ![op.name] = op.name]
    /\ Goto("dv_json")
    /\ UNCHANGED <<env, op, opsLeft, ver, json, dirs, indexFile, objFiles, libFiles,
                   counters, orphans, meter, locals>>

\* the definition is written; get_version goes on to download_assets
DvJson ==
    /\ pc = "dv_json"
    /\ json' = json \cup {op.name}
    /\ ver' = Loaded(op.name)
    /\ BeginWalk("da_walk", Loaded(op.name))
    /\ result' = result
    /\ UNCHANGED <<env, op, opsLeft, jar, dirs, indexFile, objFiles, libFiles,
                   counters, orphans, meter, taskv, libvars, launch>>

(***************************************************************************)
(* The walk along inheritsFrom: Version.fetch_inherited and the recursive  *)
(* fetch_asset_index, fetch_libraries and fetch_java_version.              *)
(***************************************************************************)
WalkPcs == {"da_walk", "dl_walk", "fl_walk", "fa_walk", "fj_walk",
            "pl_java_walk", "pl_javadl_walk"}

Top == stack[Len(stack)]

\* list_all_versions() answers; the loop of fetch_inherited keeps the last
\* entry whose name is inheritsFrom, and the caller recurses into it. When no
\* entry matches, _inherits stays None and the release is treated as a base.
\* The nesting of awaits ends with RecursionError at the interpreter's limit
WalkManifest ==
    /\ pc \in WalkPcs
    /\ wpc = "manifest"
    /\ manifestReq' = Bump(manifestReq)
    /\ LET parent == Def(Top).inheritsFrom
       IN  IF Found(parent) = {}
           THEN /\ wpc' = "return"
                /\ Goto(pc)
                /\ Request
                /\ UNCHANGED <<stack, fullAtStart, taskv, libvars, launch>>
           ELSE IF Len(stack) >= MaxDepth
                THEN Finish("RecursionError")
                ELSE /\ stack' = Append(stack, parent)
                     /\ wpc' = "data"
                     /\ Goto(pc)
                     /\ Request
                     /\ UNCHANGED <<fullAtStart, taskv, libvars, launch>>
    /\ UNCHANGED <<env, op, opsLeft, ver, disk, docReq, orphans>>

\* fetch_data of the Version object the manifest gave: its document arrives
WalkData ==
    /\ pc \in WalkPcs
    /\ wpc = "data"
    /\ docReq' = [docReq EXCEPT ![Top] = Bump(@)]
    /\ Request
    /\ wpc' = AfterData(Top)
    /\ Goto(pc)
    /\ UNCHANGED <<env, op, opsLeft, ver, stack, disk, manifestReq, orphans,
                   fullAtStart, taskv, libvars, launch>>

\* the libraries of the releases entered after the first, each from its own
\* freshly fetched document
RECURSIVE ParentLibraries(_)
ParentLibraries(st) ==
    IF st = <<>> THEN <<>>
    ELSE Def(Head(st)).libraries \o ParentLibraries(Tail(st))

\* what fetch_libraries returns for the object v after the walk st
fetch_libraries(v, st) == v.libraries \o ParentLibraries(Tail(st))

\* what the data of v holds after fetch_libraries: `libraries += ...` extends
\* the list of the data in place when the data has a "libraries" key
DataAfterFetch(v, st) ==
    IF v.hasLibraries THEN [v EXCEPT !.libraries = fetch_libraries(v, st)] ELSE v

\* fetch_libraries / download_libraries: the recursion returns
LibrariesReturn ==
    /\ pc \in {"dl_walk", "fl_walk"}
    /\ wpc = "return"
    /\ ver' = DataAfterFetch(ver, stack)
    /\ IF pc = "fl_walk"
       THEN Finish("ok")
       ELSE /\ libQueue' = fetch_libraries(ver, stack)
            /\ libIdx' = 1
            /\ wpc' = "done"
            /\ Goto("dl_loop")
            /\ UNCHANGED <<stack, meter, taskv, launch>>
    /\ UNCHANGED <<env, op, opsLeft, disk, counters, orphans>>

\* fetch_asset_index / fetch_java_version called on their own: the last
\* release entered must carry the key
ValueReturn ==
    /\ pc \in {"fa_walk", "fj_walk"}
    /\ wpc = "return"
    /\ Finish(IF HasOwnIndex(Top) THEN "ok" ELSE "KeyError")
    /\ UNCHANGED <<env, op, opsLeft, ver, disk, counters, orphans>>

\* the calls a user of the library makes on the Version object
CallWalk(kind, p) ==
    /\ ver # NoVer
    /\ Begin(kind, ver.name)
    /\ BeginWalk(p, ver)
    /\ result' = "running"
    /\ UNCHANGED <<env, ver, disk, counters, orphans, meter, taskv, libvars, launch>>

FetchLibraries == CallWalk("fetch_libraries", "fl_walk")
FetchAssetIndex == CallWalk("fetch_asset_index", "fa_walk")
FetchJavaVersion == CallWalk("fetch_java_version", "fj_walk")
DownloadLibraries == CallWalk("download_libraries", "dl_walk")
DownloadAssets == CallWalk("download_assets", "da_walk")

(***************************************************************************)
(* Version.download_assets.                                                *)
(***************************************************************************)
\* a chunking that drops a last slice shorter than n
chunks_whole(lst, n) ==
    [k \in 1..(Len(lst) \div n) |-> SubSeq(lst, (k - 1) * n + 1, k * n)]

\* util.chunks(lst, n): the slices lst[i : i + n] for i = 0, n, 2n, ...
chunks(lst, n) ==
    [k \in 1..((Len(lst) + n - 1) \div n) |->
        SubSeq(lst, (k - 1) * n + 1, Min(k * n, Len(lst)))]

\* the positions of the task list, cut into the windows gather() is given
Windows == chunks([i \in 1..Len(objects) |-> i], ChunkSize)

\* the tasks of window k
InWindow(k) == Range(Windows[k])

\* util.is_valid_file(object_file, full_hash)
is_valid_file(state) == state = "good"

\* what `await resp.read()` gives: the bytes of the object, or other bytes (a
\* damaged transfer, or the body of an error response: the status of the
\* response is never looked at)
Damaged ==
    Cardinality({h \in DOMAIN objFiles : objFiles[h] = "bad"})
    + Cardinality({l \in DOMAIN libFiles : libFiles[l] = "bad"})
Bodies == IF Damaged < MaxDamaged THEN {"good", "bad"} ELSE {"good"}

\* fetch_asset_index has returned: the index is requested (always)
AssetIndexReturn ==
    /\ pc = "da_walk"
    /\ wpc = "return"
    /\ IF HasOwnIndex(Top)
       THEN /\ Goto("da_index")
            /\ wpc' = "done"
            /\ UNCHANGED <<stack, meter, taskv, libvars, launch>>
       ELSE Finish("KeyError")
    /\ UNCHANGED <<env, op, opsLeft, ver, disk, counters, orphans>>

\* download_assets is over: get_version goes on with download_libraries
AfterAssets ==
    IF op.kind = "get_version"
    THEN /\ BeginWalk("dl_walk", ver)
         /\ result' = result
         /\ Request
         /\ UNCHANGED <<fullAtStart, libvars, launch>>
    ELSE Finish("ok")

\* the index arrives and is written; one coroutine per object is created
DaIndex ==
    /\ pc = "da_index"
    /\ indexFile' = TRUE
    /\ IF Len(objects) = 0
       THEN AfterAssets
       ELSE /\ Goto("da_start")
            /\ Request
            /\ tasks' = [i \in 1..Len(objects) |-> "new"]
            /\ window' = 1
            /\ UNCHANGED <<walkv, fullAtStart, libvars, launch>>
    /\ UNCHANGED <<env, op, opsLeft, ver, json, jar, dirs, objFiles, libFiles,
                   counters, orphans>>

\* asyncio.gather(*chunk): every task of the window runs up to its request,
\* or returns at once when its file is valid
DaStartWindow ==
    /\ pc = "da_start"
    /\ tasks' = [i \in 1..Len(objects) |->
                    IF i \in InWindow(window)
                    THEN IF is_valid_file(objFiles[objects[i]]) THEN "done" ELSE "get"
                    ELSE tasks[i]]
    /\ Goto("da_wait")
    /\ UNCHANGED <<env, op, opsLeft, ver, disk, counters, orphans, meter, walkv,
                   window, libvars, launch>>

\* the response of one transfer arrives and is written to the object file
TaskFinish(i) ==
    /\ pc = "da_wait"
    /\ tasks[i] = "get"
    /\ tasks' = [tasks EXCEPT ![i] = "done"]
    /\ \E body \in Bodies : objFiles' = [objFiles EXCEPT ![objects[i]] = body]
    /\ Request
    /\ Goto(pc)
    /\ UNCHANGED <<env, op, opsLeft, ver, json, jar, dirs, indexFile, libFiles,
                   counters, orphans, fullAtStart, walkv, window, libvars, launch>>

\* a gather() that is not awaited
WindowNotAwaited(k) == TRUE

\* gather() returns once every task of the window is done
WindowComplete(k) == \A i \in InWindow(k) : tasks[i] = "done"

DaWindowDone ==
    /\ pc = "da_wait"
    /\ WindowComplete(window)
    /\ IF window < Len(Windows)
       THEN /\ window' = window + 1
            /\ Goto("da_start")
            /\ UNCHANGED <<tasks, walkv, meter, libvars, launch>>
       ELSE IF op.kind = "get_version"
            THEN /\ BeginWalk("dl_walk", ver)
                 /\ result' = result
                 /\ UNCHANGED <<meter, taskv, libvars, launch>>
            ELSE Finish("ok")
    /\ UNCHANGED <<env, op, opsLeft, ver, disk, counters, orphans>>

\* one transfer raises: gather() hands the exception to download_assets at
\* once and does not cancel the other tasks of the window, which stay in
\* flight with the call gone
TaskFail(i) ==
    /\ pc = "da_wait"
    /\ tasks[i] = "get"
    /\ orphans' = orphans \cup {objects[j] : j \in {j \in 1..Len(objects) :
                                                    j # i /\ tasks[j] = "get"}}
    /\ Finish("Transport")
    /\ UNCHANGED <<env, op, opsLeft, ver, disk, counters>>

\* a transfer left behind by a failed call completes while the loop runs on
OrphanFinish(h) ==
    /\ h \in orphans
    /\ orphans' = orphans \ {h}
    /\ \E body \in Bodies : objFiles' = [objFiles EXCEPT ![h] = body]
    /\ Goto(pc)
    /\ UNCHANGED <<env, op, opsLeft, ver, json, jar, dirs, indexFile, libFiles,
                   counters, meter, locals>>

(***************************************************************************)
(* Version.download_libraries: the loop over the list of fetch_libraries.  *)
(***************************************************************************)
\* the library is requested: always for the "url" form, for the "downloads"
\* form when the artifact file is not valid
NeedsRequest(library) ==
    \/ library.form = "url"
    \/ library.form = "downloads" /\ ~is_valid_file(libFiles[library.name])

DlLib ==
    /\ pc = "dl_loop"
    /\ libIdx <= Len(libQueue)
    /\ LET library == libQueue[libIdx]
       IN  IF NeedsRequest(library)
           THEN /\ Request
                /\ \E body \in Bodies :
                      libFiles' = [libFiles EXCEPT ![library.name] = body]
           ELSE UNCHANGED <<opReqs, libFiles>>
    /\ libIdx' = libIdx + 1
    /\ Goto(pc)
    /\ UNCHANGED <<env, op, opsLeft, ver, json, jar, dirs, indexFile, objFiles,
                   counters, orphans, fullAtStart, walkv, taskv, libQueue, launch>>

\* the request of the library at hand raises
DlLibFail ==
    /\ pc = "dl_loop"
    /\ libIdx <= Len(libQueue)
    /\ NeedsRequest(libQueue[libIdx])
    /\ Finish("Transport")
    /\ UNCHANGED <<env, op, opsLeft, ver, disk, counters, orphans>>

DlDone ==
    /\ pc = "dl_loop"
    /\ libIdx > Len(libQueue)
    /\ Finish("ok")
    /\ UNCHANGED <<env, op, opsLeft, ver, disk, counters, orphans>>

(***************************************************************************)
(* Argon.play, up to the classpath.                                        *)
(***************************************************************************)
\* Argon.has_version
has_version(n) == n \in dirs /\ jar[n] # Absent

\* play begins with has_java_version, which walks to the javaVersion
Play ==
    /\ ver # NoVer
    /\ Begin("play", ver.name)
    /\ BeginWalk("pl_java_walk", ver)
    /\ result' = "running"
    /\ UNCHANGED <<env, ver, disk, counters, orphans, meter, taskv, libvars, launch>>

\* fetch_data, fetch_inherited and the classpath of the release itself
\* (the data the Version object holds now)
PlayClassPath ==
    /\ class_path' = get_class_path(ver.libraries, ver.name, target, arch)
    /\ wpc' = "done"
    /\ IF Def(ver.name).inheritsFrom = NoName
       THEN Goto("pl_natives")
       ELSE Goto("pl_inherit")
    /\ UNCHANGED <<stack, copies, taskv, libvars>>

\* has_java_version has its answer; the runtime is there, or download_java
\* walks to the javaVersion once more
JavaReturn ==
    /\ pc = "pl_java_walk"
    /\ wpc = "return"
    /\ IF ~HasOwnIndex(Top)
       THEN Finish("KeyError")
       ELSE \/ PlayClassPath /\ UNCHANGED meter
            \/ /\ BeginWalk("pl_javadl_walk", ver)
               /\ result' = result
               /\ UNCHANGED <<meter, taskv, libvars, launch>>
    /\ UNCHANGED <<env, op, opsLeft, ver, disk, counters, orphans>>

\* download_java has walked to the javaVersion: the archive is requested
JavaDlReturn ==
    /\ pc = "pl_javadl_walk"
    /\ wpc = "return"
    /\ IF ~HasOwnIndex(Top)
       THEN Finish("KeyError")
       ELSE /\ wpc' = "done"
            /\ Goto("pl_java_get")
            /\ UNCHANGED <<stack, meter, taskv, libvars, launch>>
    /\ UNCHANGED <<env, op, opsLeft, ver, disk, counters, orphans>>

\* the runtime archive arrives and is unpacked
JavaGet ==
    /\ pc = "pl_java_get"
    /\ Request
    /\ PlayClassPath
    /\ UNCHANGED fullAtStart
    /\ UNCHANGED <<env, op, opsLeft, ver, disk, counters, orphans>>

\* the manifest of fetch_inherited arrives. With a parent: the unawaited
\* get_version, the size of the jar, the copy, and the request of the
\* parent's document
PlayInherit ==
    /\ pc = "pl_inherit"
    /\ manifestReq' = Bump(manifestReq)
    /\ LET parent == Def(ver.name).inheritsFrom
           stay == Request /\ UNCHANGED <<fullAtStart, walkv, taskv, libvars, class_path>>
       IN  IF Found(parent) = {}
           THEN Goto("pl_natives") /\ stay /\ UNCHANGED <<jar, copies>>
           ELSE IF jar[ver.name] = Absent
                THEN Finish("OSError") /\ jar' = jar
                ELSE IF jar[ver.name] # Empty
                     THEN Goto("pl_parent_data") /\ stay /\ UNCHANGED <<jar, copies>>
                     ELSE IF jar[parent] = Absent
                          THEN Finish("OSError") /\ jar' = jar
                          ELSE /\ jar' = [jar EXCEPT ![ver.name] = jar[parent]]
                               /\ copies' = Bump(copies)
                               /\ Goto("pl_parent_data")
                               /\ stay
    /\ UNCHANGED <<env, op, opsLeft, ver, json, dirs, indexFile, objFiles, libFiles,
                   docReq, orphans>>

\* the parent's document arrives: its classpath is appended
PlayParentData ==
    /\ pc = "pl_parent_data"
    /\ LET parent == Def(ver.name).inheritsFrom
       IN  /\ docReq' = [docReq EXCEPT ![parent] = Bump(@)]
           /\ class_path' = class_path \o
                 get_class_path(Def(parent).libraries, parent, target, arch)
    /\ Request
    /\ Goto("pl_natives")
    /\ UNCHANGED <<env, op, opsLeft, ver, disk, manifestReq, orphans, fullAtStart,
                   walkv, taskv, libvars, copies>>

\* the classpath is complete; Version has no extract_native_libraries
PlayNatives ==
    /\ pc = "pl_natives"
    /\ Finish("AttributeError")
    /\ UNCHANGED <<env, op, opsLeft, ver, disk, counters, orphans>>

(***************************************************************************)
(* A request that is awaited raises (aiohttp.ClientError): nothing catches *)
(* it, and the operation ends with it.                                     *)
(***************************************************************************)
Awaiting ==
    \/ pc \in {"dv_list", "dv_data", "dv_jar_get", "dv_jar_read", "da_index",
                "pl_inherit", "pl_parent_data", "pl_java_get"}
    \/ pc \in WalkPcs /\ wpc \in {"manifest", "data"}

NetFail ==
    /\ Awaiting
    /\ Finish("Transport")
    /\ UNCHANGED <<env, op, opsLeft, ver, disk, counters, orphans>>

(***************************************************************************)
(* The specification.                                                      *)
(***************************************************************************)
Next ==
    \/ \E n \in Requested : FromPath(n)
    \/ \E n \in Requested : GetVersion(n)
    \/ DvManifest
    \/ DvData
    \/ DvJarOpen
    \/ DvJarWrite
    \/ DvJson
    \/ WalkManifest
    \/ WalkData
    \/ LibrariesReturn
    \/ ValueReturn
    \/ FetchLibraries
    \/ FetchAssetIndex
    \/ FetchJavaVersion
    \/ DownloadLibraries
    \/ DownloadAssets
    \/ AssetIndexReturn
    \/ DaIndex
    \/ DaStartWindow
    \/ \E i \in 1..Len(objects) : TaskFinish(i)
    \/ DaWindowDone
    \/ \E i \in 1..Len(objects) : TaskFail(i)
    \/ \E h \in Range(objects) : OrphanFinish(h)
    \/ DlLib
    \/ DlLibFail
    \/ DlDone
    \/ Play
    \/ JavaReturn
    \/ JavaDlReturn
    \/ JavaGet
    \/ PlayInherit
    \/ PlayParentData
    \/ PlayNatives
    \/ NetFail

Spec == Init /\ [][Next]_vars

(***************************************************************************)
(* The process that only installs releases: Version.from_path and          *)
(* Argon.get_version, with all that get_version runs.                      *)
(***************************************************************************)
NextInstall ==
    \/ \E n \in Requested : FromPath(n)
    \/ \E n \in Requested : GetVersion(n)
    \/ DvManifest
    \/ DvData
    \/ DvJarOpen
    \/ DvJarWrite
    \/ DvJson
    \/ WalkManifest
    \/ WalkData
    \/ LibrariesReturn
    \/ AssetIndexReturn
    \/ DaIndex
    \/ DaStartWindow
    \/ \E i \in 1..Len(objects) : TaskFinish(i)
    \/ DaWindowDone
    \/ \E i \in 1..Len(objects) : TaskFail(i)
    \/ \E h \in Range(objects) : OrphanFinish(h)
    \/ DlLib
    \/ DlLibFail
    \/ DlDone
    \/ NetFail

SpecInstall == Init /\ [][NextInstall]_vars

(***************************************************************************)
(* download_assets alone, on an index long enough for two windows. The     *)
(* base release is installed; any of the first three objects and of those  *)
(* past the first window may be missing from the store. The entries of the *)
(* index name different objects, or the first two name the same one.       *)
(***************************************************************************)
MayMiss == {1, 2, 3} \cup ((ChunkSize + 1)..MaxObjects)

\* data["objects"].values(): the hash of each entry, in order
IndexEntries ==
    {[i \in 1..MaxObjects |-> i],
     [i \in 1..MaxObjects |-> IF i = 2 THEN 1 ELSE i]}

InitAssets ==
    /\ InitCommon
    /\ arch = "64"
    /\ target = "linux"
    /\ objects \in IndexEntries
    /\ pc = "idle"
    /\ opsLeft = 1
    /\ ver = Loaded("base")
    /\ tasks = [i \in 1..MaxObjects |-> "new"]
    /\ json = {"base"}
    /\ jar = [n \in Names \cup Requested |-> IF n = "base" THEN "base" ELSE Absent]
    /\ dirs = {"base"}
    /\ indexFile \in BOOLEAN
    /\ \E missing \in SUBSET MayMiss :
          objFiles = [h \in 1..MaxObjects |-> IF h \in missing THEN "none" ELSE "good"]
    /\ libFiles = [l \in LibNames |-> "good"]

NextAssets ==
    \/ DownloadAssets
    \/ AssetIndexReturn
    \/ DaIndex
    \/ DaStartWindow
    \/ \E i \in 1..Len(objects) : TaskFinish(i)
    \/ DaWindowDone
    \/ \E i \in 1..Len(objects) : TaskFail(i)
    \/ \E h \in Range(objects) : OrphanFinish(h)
    \/ NetFail

SpecAssets == InitAssets /\ [][NextAssets]_vars

\* the event loop runs every coroutine that can go on, and a transfer that
\* has started and does not fail completes
FairAssets ==
    /\ SpecAssets
    /\ WF_vars(AssetIndexReturn)
    /\ WF_vars(DaIndex)
    /\ WF_vars(DaStartWindow)
    /\ WF_vars(DaWindowDone)
    /\ \A i \in 1..MaxObjects : WF_vars(TaskFinish(i))

(***************************************************************************)
(* The functions of util.py, called on their own on every platform the     *)
(* module can be imported on.                                              *)
(***************************************************************************)
\* rules of one "rules" list
MaxRules == 2

\* shared.SYSTEM_TARGET when platform.system() is not a key of
\* SYSTEM_DEFINITIONS
NoTarget == "None"

\* the values of SYSTEM_DEFINITIONS
Systems == {"windows", "osx", "linux"}

\* shared.SYSTEM_TARGET
Targets == Systems \cup {NoTarget}

\* platform.architecture()[0][:2]; "" when the bits are not known
Archs == {"64", "32", ""}

\* everything but arg and ret
prog == <<target, arch, objects, pc, wpc, op, opsLeft, result, ver, stack,
          json, jar, dirs, indexFile, objFiles, libFiles, manifestReq, docReq,
          opReqs, fullAtStart, tasks, window, orphans, libQueue, libIdx,
          class_path, copies>>

InitUtil ==
    /\ InitCommon
    /\ target \in Targets
    /\ arch \in Archs
    /\ objects = <<>>
    /\ pc = "idle"
    /\ opsLeft = 0
    /\ ver = NoVer
    /\ tasks = <<>>
    /\ json = {}
    /\ jar = [n \in Names \cup Requested |-> Absent]
    /\ dirs = {}
    /\ indexFile = FALSE
    /\ objFiles = <<>>
    /\ libFiles = [l \in LibNames |-> "none"]

\* the sequences over S of length at most n
SeqsUpTo(S, n) == UNION {[1..k -> S] : k \in 0..n}

\* the "os" objects of the rules
OsObjects ==
    {<<(<<"name", o>>)>> : o \in Systems}
    \cup {<<(<<"arch", "x86">>)>>, <<(<<"name", "windows">>), (<<"arch", "x86">>)>>}

Actions == {"allow", "deny"}

RuleSet ==
    {PlainRule(a) : a \in Actions}
    \cup {Rule(a, os) : a \in Actions, os \in OsObjects}
    \cup {FeatureRule(a, FALSE, <<>>) : a \in Actions}
    \cup {FeatureRule("allow", TRUE, <<(<<"name", "linux">>)>>)}

\* libraries (or conditional argument nodes) without a "rules" key, and with
\* a "rules" list of every length up to MaxRules
RuleLibs ==
    {Lib("lib", FALSE, <<>>)} \cup {Lib("lib", TRUE, rs) : rs \in SeqsUpTo(RuleSet, MaxRules)}

\* the functions are pure: one call on each input shows all they do
CallShouldUseRule ==
    \E rule \in RuleSet :
        /\ arg = NoCall
        /\ arg' = [fn |-> "should_use_rule", rule |-> rule]
        /\ ret' = Return(should_use_rule(rule, target, arch))
        /\ UNCHANGED prog

CallShouldUseLibrary ==
    \E library \in RuleLibs :
        /\ arg = NoCall
        /\ arg' = [fn |-> "should_use_library", library |-> library]
        /\ ret' = Return(should_use_library(library, target, arch))
        /\ UNCHANGED prog

\* libraries of one definition in a call of get_class_path
MaxLibs == 2

\* "natives" maps: one without an entry for osx, one with all three systems
NativesNoOsx ==
    [o \in {"linux", "windows"} |->
        IF o = "windows" THEN <<"natives-windows-", "${arch}">> ELSE <<"natives-linux">>]
NativesAll ==
    [o \in Systems |->
        IF o = "windows" THEN <<"natives-windows-", "${arch}">> ELSE <<"natives-", o>>]

\* a library with a "natives" map
NativeLib(name, hasRules, rules, natives) ==
    [Lib(name, hasRules, rules) EXCEPT !.hasNatives = TRUE, !.natives = natives]

\* the libraries get_natives_string and get_class_path are called on
NativeLibs ==
    {Lib("p1", FALSE, <<>>),
     Lib("p2", TRUE, <<Rule("deny", <<(<<"name", "osx">>)>>)>>),
     NativeLib("n1", FALSE, <<>>, NativesNoOsx),
     NativeLib("n2", TRUE, <<Rule("deny", <<(<<"name", "osx">>)>>)>>, NativesNoOsx),
     NativeLib("n3", FALSE, <<>>, NativesAll)}

CallGetNativesString ==
    \E library \in NativeLibs :
        /\ arg = NoCall
        /\ arg' = [fn |-> "get_natives_string", library |-> library]
        /\ ret' = get_natives_string(library, target, arch)
        /\ UNCHANGED prog

\* get_class_path on a definition "rel" with the libraries libs
CallGetClassPath ==
    \E libs \in SeqsUpTo(NativeLibs, MaxLibs) :
        /\ arg = NoCall
        /\ arg' = [fn |-> "get_class_path", libraries |-> libs]
        /\ ret' = IF ClassPathRaised(libs, target, arch) = "none"
                  THEN Return(get_class_path(libs, "rel", target, arch))
                  ELSE Raise(ClassPathRaised(libs, target, arch))
        /\ UNCHANGED prog

\* conditional nodes inside conditional nodes
MaxNest == 2

\* the options of a call: all of them, or all but version_name
OptionValues == [auth_player_name |-> "Steve", version_name |-> "1.16"]
OptionSets ==
    {OptionValues, [n \in {"auth_player_name"} |-> OptionValues[n]]}

\* the literal entries
PlayerName == Str(<<Dollar("auth_player_name")>>)
VersionArg == Str(<<Text("--version="), Dollar("version_name")>>)
StrNodes == {PlayerName, VersionArg}

\* a conditional node has no "rules", rules that allow on linux only, or a
\* rule with "features"
NodeRules ==
    {<<FALSE, <<>>>>,
     <<TRUE, <<Rule("allow", <<(<<"name", "linux">>)>>)>>>>,
     <<TRUE, <<FeatureRule("allow", FALSE, <<>>)>>>>}

\* the entries with at most d conditional nodes inside each other
RECURSIVE Entries(_)
Entries(d) ==
    IF d = 0 THEN StrNodes
    ELSE StrNodes \cup
         {Dict(r[1], r[2], v) :
            r \in NodeRules,
            v \in StrNodes
                  \cup {List(<<x>>) : x \in Entries(d - 1)}
                  \cup {List(<<x, PlayerName>>) : x \in Entries(d - 1)}}

\* the templates create_arguments is called on
Templates ==
    StrNodes
    \cup {List(<<x>>) : x \in Entries(MaxNest)}
    \cup {List(<<VersionArg, x, PlayerName>>) : x \in Entries(MaxNest)}

CallCreateArguments ==
    \E data \in Templates, options \in OptionSets :
        /\ arg = NoCall
        /\ arg' = [fn |-> "create_arguments", data |-> data, options |-> options]
        /\ ret' = create_arguments(data, options, target, arch)
        /\ UNCHANGED prog

NextUtil ==
    \/ CallCreateArguments
    \/ CallShouldUseRule
    \/ CallShouldUseLibrary
    \/ CallGetNativesString
    \/ CallGetClassPath

SpecUtil == InitUtil /\ [][NextUtil]_vars

(***************************************************************************)
(* The claims.                                                             *)
(***************************************************************************)
NoDuplicates(st) == \A i, j \in 1..Len(st) : i # j => st[i] # st[j]

Cyclic == {"cycA", "cycB"}

\* C1: a walk that starts on a release of a cyclic inheritsFrom relation never
\* enters a release a second time, and ends with CyclicInheritance (or with
\* the error of a request that failed).
C1_CycleRaises ==
    (op.kind \in {"fetch_libraries", "fetch_asset_index", "fetch_java_version"}
        /\ op.name \in Cyclic)
    => /\ NoDuplicates(stack)
       /\ pc = "idle" => result \in {"CyclicInheritance", "Transport"}

\* C2: when the walk from a release with an acyclic inheritsFrom relation
\* returns, the releases it entered are the release, then each ancestor in
\* inheritsFrom order up to the base, none twice.
C2_VisitsWholeChain ==
    (pc \in WalkPcs /\ wpc = "return" /\ stack[1] \in Acyclic)
    => stack = TrueChain(stack[1]) /\ NoDuplicates(stack)

\* C3: in one process the manifest is requested at most once and the
\* definition document of each release at most once.
C3_RequestedOnce ==
    /\ manifestReq <= 1
    /\ \A n \in Names : docReq[n] <= 1

\* C4: a get_version that begins with every target file present and valid
\* issues no network request.
C4_NoRequestWhenPresent ==
    (op.kind = "get_version" /\ fullAtStart) => opReqs = 0

\* C5: get_version of a name with no local definition and no manifest entry
\* of exactly that name goes no further than the manifest lookup, ends with
\* InvalidPath (the error of an unknown version; with the transport error
\* when the manifest request itself fails), and leaves no definition and no
\* jar of that name.
UnknownName == op.kind = "get_version" /\ op.name \notin json
                  /\ op.name \notin Range(Manifest)

C5_UnknownVersionFails ==
    UnknownName
    => /\ pc \in {"dv_list", "idle"}
       /\ pc = "idle" => result \in {"InvalidPath", "Transport"}
       /\ jar[op.name] = Absent
       /\ op.name \notin json

\* a name that differs from a manifest entry by case only was looked up in
\* the manifest and refused
C5_Witness ==
    /\ UnknownName
    /\ op.name = "BASE"
    /\ pc = "idle"
    /\ result = "InvalidPath"
    /\ manifestReq = 1

\* C6: the windows are consecutive slices of at most 16 tasks, and no task of
\* a later window has started while a task of an earlier window has neither
\* completed nor failed.
WindowOf(i) == ((i - 1) \div 16) + 1

C6_WindowsInOrder ==
    /\ \A k \in DOMAIN Windows :
          /\ Len(Windows[k]) <= 16
          /\ \A x \in 1..Len(Windows[k]) : Windows[k][x] = (k - 1) * 16 + x
    /\ \A i, j \in 1..Len(objects) :
          (WindowOf(i) < WindowOf(j) /\ tasks[j] # "new")
          => tasks[i] = "done"

\* the second window runs after a transfer of the first window completed
C6_Witness ==
    /\ pc = "da_wait"
    /\ window = 2
    /\ tasks[ChunkSize + 1] = "get"
    /\ tasks[ChunkSize] = "done"
    /\ opReqs >= 2

\* C7: once a call has failed with the error of a transfer and control is
\* back with the caller, no file of the stores is written by that call.
C7_NothingAfterFailure ==
    [][(pc = "idle" /\ result = "Transport" /\ pc' = "idle")
        => (objFiles' = objFiles /\ libFiles' = libFiles)]_vars

\* C8: the classpath of play for leaf (which inherits base) is leaf's
\* filtered libraries, leaf's jar, base's filtered libraries, base's jar.
TwoLinkClassPath ==
    LibEntries(Def("leaf").libraries, target, arch) \o <<JarPath("leaf")>>
    \o LibEntries(Def("base").libraries, target, arch) \o <<JarPath("base")>>

C8_TwoLinkClassPath ==
    (op.kind = "play" /\ ver.name = "leaf" /\ pc = "pl_natives")
    => class_path = TwoLinkClassPath

\* C9: the library list a Version object holds is the list of its definition.
C9_DefinitionNotMutated ==
    ver # NoVer => ver.libraries = Def(ver.name).libraries

\* C10: when the classpath of a release with a parent is complete, the jar
\* of the release is not of zero length (so that a second assembly copies
\* nothing), and a jar that was copied equals the parent's jar.
C10_ZeroJarPatched ==
    (op.kind = "play" /\ pc = "pl_natives" /\ Def(ver.name).inheritsFrom # NoName)
    => /\ jar[ver.name] # Empty
       /\ copies > 0 => jar[ver.name] = jar[Def(ver.name).inheritsFrom]

(***************************************************************************)
(* The rule evaluator (checked under SpecUtil).                            *)
(***************************************************************************)
DenyOsx == Lib("lib", TRUE, <<Rule("deny", <<(<<"name", "osx">>)>>)>>)
AllowLinux == Lib("lib", TRUE, <<Rule("allow", <<(<<"name", "linux">>)>>)>>)

\* C11: a library whose only rule is {deny, os name osx} is included on
\* windows and linux and excluded on osx; one whose only rule is
\* {allow, os name linux} is included on linux and excluded on windows and osx
C11_SingleRule ==
    (arg.fn = "should_use_library" /\ target \in Systems)
    => /\ arg.library = DenyOsx => ret = Return(target # "osx")
       /\ arg.library = AllowLinux => ret = Return(target = "linux")

C11_Witness ==
    /\ arg.fn = "should_use_library"
    /\ arg.library = DenyOsx
    /\ target = "windows"
    /\ ret = Return(TRUE)

\* the "os" object of a rule matches the platform: its name is the OS name
\* of the platform, or its arch (x86 for 32 bit, x64 for 64 bit) is the
\* architecture of the platform
Matches(os, t, a) ==
    \E i \in 1..Len(os) :
        \/ os[i] = <<"name", t>>
        \/ os[i] = <<"arch", "x86">> /\ a = "32"
        \/ os[i] = <<"arch", "x64">> /\ a = "64"

Decides(rule, t, a) == ~rule.hasOs \/ Matches(rule.os, t, a)

\* the first rule that decides gives its action; when none decides, the
\* negation of the action of the final rule
RECURSIVE FirstDecides(_, _, _)
FirstDecides(rules, t, a) ==
    IF Decides(Head(rules), t, a) THEN Head(rules).action = "allow"
    ELSE IF Len(rules) = 1 THEN Head(rules).action # "allow"
         ELSE FirstDecides(Tail(rules), t, a)

\* a rule list the claim C12 is about: not empty, no "features"
OsRulesOnly(library) ==
    /\ library.hasRules
    /\ library.rules # <<>>
    /\ \A i \in 1..Len(library.rules) : ~library.rules[i].hasFeatures

\* C12 as stated: on a rule list of any length, the first rule without an OS
\* condition or with a matching one decides with its action, and when no
\* rule's OS condition matches the result is the negation of the action of
\* the final rule
C12_FirstRuleDecides ==
    (arg.fn = "should_use_library" /\ OsRulesOnly(arg.library))
    => ret = Return(FirstDecides(arg.library.rules, target, arch))

\* the value of one rule on its own: its action when it has no OS condition
\* or a matching one, the negation of its own action otherwise
RuleValue(rule, t, a) ==
    IF Decides(rule, t, a) THEN rule.action = "allow" ELSE rule.action # "allow"

\* C12 amended: every rule is evaluated on its own (its action when it has
\* no OS condition or a matching one, else the negation of its own action),
\* and the result for the list is allow exactly when some rule gives allow;
\* on a list of one rule whose OS condition does not match this is the
\* negation of that rule's action
C12_EachRuleOnItsOwn ==
    (arg.fn = "should_use_library" /\ OsRulesOnly(arg.library))
    => ret = Return(\E i \in 1..Len(arg.library.rules) :
                        RuleValue(arg.library.rules[i], target, arch))

\* two rules, none matching on linux: the first denies osx, the final one
\* allows windows, and the library is included
C12_Witness ==
    /\ arg.fn = "should_use_library"
    /\ arg.library = Lib("lib", TRUE, <<Rule("deny", <<(<<"name", "osx">>)>>),
                                       Rule("allow", <<(<<"name", "windows">>)>>)>>)
    /\ target = "linux"
    /\ ret = Return(TRUE)

\* C13: a library (or conditional argument node) with no rule list is
\* included on every platform; one with a rule list is included exactly when
\* should_use_rule gives allow for at least one of its rules
C13_AnyMatch ==
    arg.fn = "should_use_library"
    => IF ~arg.library.hasRules
       THEN ret = Return(TRUE)
       ELSE ret.value <=> (\E r \in Range(arg.library.rules) :
                              should_use_rule(r, target, arch))

\* a denying rule first and an allowing one after it: included
C13_Witness ==
    /\ arg.fn = "should_use_library"
    /\ arg.library = Lib("lib", TRUE, <<PlainRule("deny"), PlainRule("allow")>>)
    /\ ret = Return(TRUE)

(***************************************************************************)
(* Native classifiers (checked under SpecUtil).                            *)
(***************************************************************************)
\* a recognised platform
Recognised == target \in Systems /\ arch \in {"64", "32"}

\* the library is included on the platform and its natives map has no entry
\* for the OS of the platform
NoNativeHere(library) ==
    /\ should_use_library(library, target, arch)
    /\ library.hasNatives
    /\ target \notin DOMAIN library.natives

\* C14: for a library that is included on the platform and whose natives map
\* has no entry for the current OS, the lookup reports no native artifact and
\* the classpath has the plain <artifact>-<version>.jar path; nothing is
\* raised
C14_MissingOsIsNoNative ==
    Recognised
    => /\ (arg.fn = "get_natives_string" /\ NoNativeHere(arg.library))
          => ret = ReturnNone
       /\ (arg.fn = "get_class_path" /\ Len(arg.libraries) = 1
             /\ NoNativeHere(arg.libraries[1]))
          => ret = Return(<<LibPath(arg.libraries[1].name, <<>>), JarPath("rel")>>)

(***************************************************************************)
(* The argument templater (checked under SpecUtil).                        *)
(***************************************************************************)
\* the names of the placeholders of a string
Placeholders(pieces) == {pieces[i].s : i \in {j \in 1..Len(pieces) : pieces[j].kind = "dollar"}}

\* the string with every placeholder replaced by the option of its name
Filled(pieces, options) ==
    [i \in 1..Len(pieces) |->
        IF pieces[i].kind = "dollar" THEN Text(options[pieces[i].s]) ELSE pieces[i]]

\* C15: expanding a literal template gives the template with each ${name}
\* replaced by options[name], as the only element of the output; when the
\* name of a placeholder is no key of options the expansion fails (with
\* KeyError, the code's error for a missing option) and returns nothing
C15_LiteralTemplate ==
    (arg.fn = "create_arguments" /\ arg.data.type = "str")
    => IF Placeholders(arg.data.pieces) \subseteq DOMAIN arg.options
       THEN ret = Return(<<Filled(arg.data.pieces, arg.options)>>)
       ELSE ret = Raise("KeyError")

C15_Witness ==
    /\ arg.fn = "create_arguments"
    /\ arg.data = PlayerName
    /\ ret = Return(<<(<<Text("Steve")>>)>>)

\* the literal entries of a template in depth-first declaration order, each
\* with whether all the conditional nodes around it allow (on says whether
\* those met so far do)
RECURSIVE Literals(_, _)
RECURSIVE LiteralsOf(_, _)
Literals(node, on) ==
    IF node.type = "str" THEN <<[pieces |-> node.pieces, on |-> on]>>
    ELSE IF node.type = "list" THEN LiteralsOf(node.items, on)
    ELSE Literals(node.value,
                  on /\ (~node.hasRules
                         \/ \E i \in 1..Len(node.rules) :
                               /\ ~node.rules[i].hasFeatures
                               /\ RuleValue(node.rules[i], target, arch)))

LiteralsOf(items, on) ==
    IF items = <<>> THEN <<>>
    ELSE Literals(Head(items), on) \o LiteralsOf(Tail(items), on)

\* the literals that are on
Emitted(node) == SelectSeq(Literals(node, TRUE), LAMBDA l : l.on)

\* C17: the output of the expansion of a template tree is the depth-first,
\* declaration-order list of the literal entries all of whose enclosing
\* conditional nodes allow, each filled from the options; entries under a
\* node that denies contribute nothing (not even the error of a placeholder
\* without option)
C17_DepthFirstFlattening ==
    (arg.fn = "create_arguments" /\ arg.data.type = "list")
    => LET out == Emitted(arg.data)
       IN  IF \A i \in 1..Len(out) : Placeholders(out[i].pieces) \subseteq DOMAIN arg.options
           THEN ret = Return([i \in 1..Len(out) |-> Filled(out[i].pieces, arg.options)])
           ELSE ret = Raise("KeyError")

\* a node that allows inside a node without rules, between two literals
C17_Witness ==
    /\ arg.fn = "create_arguments"
    /\ target = "linux"
    /\ arg.options = OptionValues
    /\ arg.data = List(<<VersionArg,
                         Dict(FALSE, <<>>,
                              List(<<Dict(TRUE, <<Rule("allow", <<(<<"name", "linux">>)>>)>>,
                                          VersionArg),
                                     PlayerName>>)),
                         PlayerName>>)
    /\ Len(ret.value) = 4

(***************************************************************************)
(* Integrity, the chain in play, the parent lookup, progress.              *)
(***************************************************************************)
\* C16: when a fetch call returns successfully, every file it was
\* responsible for that has an expected hash (the asset objects, the library
\* artifacts with a sha1) has the content of that hash
C16_VerifiedOnReturn ==
    [][(pc # "idle" /\ pc' = "idle" /\ result' = "ok")
        => /\ op.kind \in {"download_assets", "get_version"}
              => \A i \in 1..Len(objects) : objFiles'[objects[i]] = "good"
           /\ op.kind \in {"download_libraries", "get_version"}
              => \A i \in 1..Len(libQueue) :
                    libQueue[i].form = "downloads"
                    => libFiles'[libQueue[i].name] = "good"]_vars

\* for every link of the chain in chain order, the jars of its libraries
\* that pass the rules and then its own jar
RECURSIVE ChainClassPath(_)
ChainClassPath(chain) ==
    IF chain = <<>> THEN <<>>
    ELSE get_class_path(Def(Head(chain)).libraries, Head(chain), target, arch)
         \o ChainClassPath(Tail(chain))

\* C18: for a chain of three or more links the classpath play assembles has
\* the entries of every link, in chain order
C18_WholeChainClassPath ==
    (op.kind = "play" /\ pc = "pl_natives" /\ ver.name \in Acyclic
        /\ Len(TrueChain(ver.name)) >= 3)
    => class_path = ChainClassPath(TrueChain(ver.name))

\* C19: the walk along inheritsFrom returns only at a release without
\* parent: a parent that is there as a local definition only is entered, and
\* a parent found nowhere ends the walk with an error, never as if the
\* release had no parent
C19_WalkEndsAtBase ==
    (pc \in WalkPcs /\ wpc = "return") => Def(Top).inheritsFrom = NoName

\* C20: a download_assets call in which no transfer fails returns, and by
\* then every object of the index has been attempted: its file is there
InCall == op.kind = "download_assets" /\ pc # "idle"
Failed == pc = "idle" /\ result = "Transport"
ReturnedAllAttempted ==
    /\ pc = "idle"
    /\ result = "ok"
    /\ \A i \in 1..Len(objects) : objFiles[objects[i]] # "none"
C20_AllAttempted == [](InCall => <>(Failed \/ ReturnedAllAttempted))

\* the call has returned after a transfer of the second window
C20_Witness ==
    /\ op.kind = "download_assets"
    /\ ReturnedAllAttempted
    /\ objFiles[ChunkSize + 1] = "bad"

(***************************************************************************)
(* Rules with "features" (checked under SpecUtil).                         *)
(***************************************************************************)
\* every rule of the list carries "features"
AllFeatureGated(node) ==
    /\ node.hasRules
    /\ node.rules # <<>>
    /\ \A i \in 1..Len(node.rules) : node.rules[i].hasFeatures

\* C21: a rule with a features condition is a deny whatever its action and
\* OS condition are, so a library or a conditional argument node whose rules
\* all carry features is included on no platform
C21_FeaturesDeny ==
    /\ (arg.fn = "should_use_rule" /\ arg.rule.hasFeatures) => ret = Return(FALSE)
    /\ (arg.fn = "should_use_library" /\ AllFeatureGated(arg.library))
       => ret = Return(FALSE)
    /\ (arg.fn = "create_arguments" /\ arg.data.type = "list"
          /\ Len(arg.data.items) = 1 /\ arg.data.items[1].type = "dict"
          /\ AllFeatureGated(arg.data.items[1]))
       => ret = Return(<<>>)

\* an allowing rule with features and an OS condition that matches
C21_Witness ==
    /\ arg.fn = "should_use_library"
    /\ arg.library = Lib("lib", TRUE,
                         <<FeatureRule("allow", TRUE, <<(<<"name", "linux">>)>>)>>)
    /\ target = "linux"
    /\ ret = Return(FALSE)

(***************************************************************************)
(* Platforms that are not recognised (checked under SpecUtil).             *)
(***************************************************************************)
\* the evaluation reads the platform: the rule has an "os" object
ReadsPlatform(rule) == ~rule.hasFeatures /\ rule.hasOs

\* C22: on a platform whose architecture is not 32 or 64 bit or whose OS name
\* is not windows, osx or linux, the evaluation of a rule with an OS
\* condition and the native-classifier lookup fail with UnsupportedSystem
\* (the code's UnsupportedPlatform), with no other error and no result; on a
\* recognised platform the lookup raises nothing for a library without
\* natives map
C22_UnsupportedPlatform ==
    /\ ~Recognised
       => /\ (arg.fn = "should_use_rule" /\ ReadsPlatform(arg.rule))
             => ret = Raise("UnsupportedSystem")
          /\ arg.fn = "get_natives_string" => ret = Raise("UnsupportedSystem")
    /\ (Recognised /\ arg.fn = "get_natives_string" /\ ~arg.library.hasNatives)
       => ret = ReturnNone

(***************************************************************************)
(* Entries of the asset index with the same hash (checked under            *)
(* SpecAssets).                                                            *)
(***************************************************************************)
\* C23: within one download_assets call no two transfers of the same object
\* are in flight together (they would write the same file)
C23_OneTransferPerHash ==
    \A i, j \in 1..Len(objects) :
        (i # j /\ objects[i] = objects[j])
        => ~(tasks[i] = "get" /\ tasks[j] = "get")

(***************************************************************************)
(* play and the parent's jar; the fetcher and the classpath; the order of  *)
(* the writes of _download_version.                                        *)
(***************************************************************************)
\* C24: when play meets a parent release, the parent is installed before the
\* zero-length jar is patched, so play gets past the copy step only with
\* the parent installed and the copy never fails for a missing parent jar
C24_ParentInstalledBeforeCopy ==
    (op.kind = "play" /\ Def(op.name).inheritsFrom \in Range(Manifest))
    => /\ pc = "pl_parent_data" => has_version(Def(op.name).inheritsFrom)
       /\ pc = "idle" => result # "OSError"

\* the library jars play would put on the classpath of the release the
\* caller holds: those of its own data and those of its parent
EmittedLibraries ==
    LET parent == Def(ver.name).inheritsFrom
        own == LibEntries(ver.libraries, target, arch)
        inherited == IF Found(parent) = {} THEN <<>>
                     ELSE LibEntries(Def(parent).libraries, target, arch)
    IN  {e.coord : e \in Range(own \o inherited)}

\* C25: after get_version has returned a release, every library path the
\* classpath of that release names is a file download_libraries has written
\* or found valid
C25_ClassPathIsFetched ==
    (op.kind = "get_version" /\ pc = "idle" /\ result = "ok")
    => \A l \in EmittedLibraries : libFiles[l] # "none"

\* the positions of _download_version
DvPcs == {"dv_list", "dv_data", "dv_jar_get", "dv_jar_read", "dv_json"}

\* C26: _download_version writes the definition file only when the jar is
\* completely written, and a download that fails leaves no definition file,
\* so that from_path of a later get_version does not find the release
C26_DefinitionAfterJar ==
    [][/\ \A n \in Requested :
             (n \notin json /\ n \in json') => jar'[n] \notin {Absent, Empty}
       /\ (pc \in DvPcs /\ pc' = "idle") => op.name \notin json']_vars

\* a download has failed with the jar opened and not written
C26_Witness ==
    /\ op.kind = "get_version"
    /\ pc = "idle"
    /\ result = "Transport"
    /\ jar[op.name] = Empty
    /\ op.name \notin json

====
